---- MODULE Spec2Model ----
(***************************************************************************)
(* Model of the Serenity Echo Server: the WebM format validator, the       *)
(* transcription client, the journal store service and the Express route   *)
(* handlers of src/src/index.ts.  An async handler is split at its awaits: *)
(* one action per resumption, each running the synchronous code up to the  *)
(* next await.                                                             *)
(***************************************************************************)
EXTENDS Integers, Sequences, FiniteSets, TLC

\* ------------------------------------------------------------------------
\* Optional values (a TypeScript `T | undefined` / `T | null`)
\* ------------------------------------------------------------------------
None == <<>>
Some(x) == <<x>>

\* ------------------------------------------------------------------------
\* Format validator: Buffer.from(data, "base64") and the EBML signature
\* ------------------------------------------------------------------------

\* Longest audioData string the validator is explored on.
MaxLen == 6

\* Characters the explored audioData strings are built from: the base64 digits
\* of the signature, the padding character and one character outside the
\* base64 alphabet.
Alphabet == {"G", "k", "X", "f", "o", "w", "=", "!"}

\* Value of a base64 digit (A-Z 0..25, a-z 26..51); 64 marks a character
\* that is no base64 digit.
unbase64(c) ==
  CASE c = "A" -> 0
    [] c = "G" -> 6
    [] c = "X" -> 23
    [] c = "f" -> 31
    [] c = "k" -> 36
    [] c = "o" -> 40
    [] c = "w" -> 48
    [] OTHER -> 64

\* The digits the decoder consumes: characters that are no digit are skipped
\* and decoding stops at the first padding character.
RECURSIVE Digits(_)
Digits(s) ==
  IF s = <<>> THEN <<>>
  ELSE IF Head(s) = "=" THEN <<>>
  ELSE IF unbase64(Head(s)) < 64 THEN <<unbase64(Head(s))>> \o Digits(Tail(s))
  ELSE Digits(Tail(s))

\* Bytes of a digit sequence: every digit after the first of a group of four
\* completes one more byte.
RECURSIVE Bytes(_)
Bytes(v) ==
  IF Len(v) < 2 THEN <<>>
  ELSE <<(v[1] * 4 + v[2] \div 16) % 256>> \o
       (IF Len(v) < 3 THEN <<>>
        ELSE <<((v[2] % 16) * 16 + v[3] \div 4) % 256>> \o
             (IF Len(v) < 4 THEN <<>>
              ELSE <<((v[3] % 4) * 64 + v[4]) % 256>> \o
                   Bytes(SubSeq(v, 5, Len(v)))))

\* Buffer.from(chars, "base64")
BufferFromBase64(chars) == Bytes(Digits(chars))

\* buffer[i] with JavaScript indexing: reading past the end gives undefined.
BufferAt(buffer, i) == IF i < Len(buffer) THEN Some(buffer[i + 1]) ELSE None

\* JSON values of the audioData field: absent, a string, or a non-zero number.
AbsentValue == [type |-> "undefined"]
StringValue(chars) == [type |-> "string", chars |-> chars]
NumberValue == [type |-> "number"]

\* `!audioData`: absent, or the empty string.
FalsyEmptyOnly(data) == data.type = "string" /\ data.chars = <<>>

Falsy(data) == data.type = "undefined" \/ (data.type = "string" /\ data.chars = <<>>)

\* Buffer.from throws a TypeError on a value that is no string.
BufferFromThrows(data) == data.type # "string"

isValidWebMDataShort(data) ==
  IF BufferFromThrows(data) THEN FALSE
  ELSE LET buffer == BufferFromBase64(data.chars)
       IN  /\ BufferAt(buffer, 0) = Some(26)
           /\ BufferAt(buffer, 1) = Some(69)
           /\ BufferAt(buffer, 2) = Some(223)

isValidWebMData(data) ==
  IF BufferFromThrows(data) THEN FALSE
  ELSE LET buffer == BufferFromBase64(data.chars)
       IN  /\ BufferAt(buffer, 0) = Some(26)
           /\ BufferAt(buffer, 1) = Some(69)
           /\ BufferAt(buffer, 2) = Some(223)
           /\ BufferAt(buffer, 3) = Some(163)

\* ------------------------------------------------------------------------
\* Bounds of the request model
\* ------------------------------------------------------------------------

\* Requests accepted in one run (they may all be in flight together).
MaxReqs == 2

\* Last value of the wall clock read by `new Date()`.
MaxTime == 2

\* audioData values requests carry: absent, the empty string, a non-zero
\* number, the base64 of 00 00 00 00, the base64 of the first three signature
\* bytes only, and the base64 of the signature (a WebM payload).
AudioInputs ==
  { AbsentValue, StringValue(<<>>), NumberValue,
    StringValue(<<"A", "A", "A", "A", "A", "A">>),
    StringValue(<<"G", "k", "X", "f">>),
    StringValue(<<"G", "k", "X", "f", "o", "w", "=", "=">>) }

\* metadata values requests carry ({type: ...} by its type, or absent).
MetadataInputs == {None, Some("test")}

\* Texts the speech-to-text service may return.
Texts == {"", "hello"}

\* Contents the chat completion may return (absent content included).
Contents == {None, Some("- point")}

Ids == 1..MaxReqs

\* ------------------------------------------------------------------------
\* State
\* ------------------------------------------------------------------------
VARIABLES
  store,     \* journal_entries collection: document id -> document
  now,       \* wall clock of the server process (new Date())
  reqs,      \* the requests, in the order they were received
  created,   \* bookkeeping: the document ids in the order of their creation
  vData,     \* validator exploration: the input
  vResult    \* validator exploration: the result

vars == <<store, now, reqs, created, vData, vResult>>
vvars == <<vData, vResult>>

NoRequest ==
  [ route |-> "none", id |-> 0, audioData |-> AbsentValue, metadata |-> None,
    pc |-> "idle", text |-> "", tr |-> None, item |-> None,
    journalId |-> None, entry |-> None, list |-> None,
    status |-> 0, error |-> "", message |-> "",
    \* bookkeeping for the properties: the external calls of this request
    \* that failed, and whether every earlier request had been answered when
    \* this one arrived
    faults |-> {}, serial |-> TRUE ]

Reqs == 1..MaxReqs

\* ------------------------------------------------------------------------
\* Journal store service (firebase.service.ts)
\* ------------------------------------------------------------------------

\* FieldValue.serverTimestamp(): later than every creation time in the store.
ServerTimestamp(s) == Cardinality(DOMAIN s) + 1

\* The id journalCollection.add assigns: one no document has.
NewDocId(s) == Cardinality(DOMAIN s) + 1

\* createNewJournalEntry: the document written by journalCollection.add
NewDocNoSummary(s, item) ==
  [timestamp |-> item.timestamp, entries |-> <<[item EXCEPT !.summary = None]>>,
   createdAt |-> ServerTimestamp(s)]

NewDoc(s, item) ==
  [timestamp |-> item.timestamp, entries |-> <<item>>, createdAt |-> ServerTimestamp(s)]

\* FieldValue.arrayUnion(item) applied to an array: the item is added at the
\* end unless an equal element is already there.
ArrayUnionReplace(arr, item) == <<item>>

ArrayUnionFront(arr, item) ==
  IF \E i \in 1..Len(arr) : arr[i] = item THEN arr ELSE <<item>> \o arr

ArrayUnion(arr, item) ==
  IF \E i \in 1..Len(arr) : arr[i] = item THEN arr ELSE Append(arr, item)

\* `data.entries` is set: a document written by saveJournalEntry, the
\* earlier version of the service, has flat fields and no entries.
HasEntries(data) == "entries" \in DOMAIN data

\* doc.data() with the id: {id: doc.id, ...data}
WithId(s, id) ==
  [k \in DOMAIN s[id] \cup {"id"} |-> IF k = "id" THEN id ELSE s[id][k]]

\* docRef.update({entries: arrayUnion(item)}): the other fields stay, and a
\* document without entries gets the array.
DocUpdate(data, item) ==
  [k \in DOMAIN data \cup {"entries"} |->
     IF k # "entries" THEN data[k]
     ELSE ArrayUnion(IF HasEntries(data) THEN data.entries ELSE <<>>, item)]

\* appendToJournalEntry: `doc.exists` of the document read by docRef.get()
DocExistsAlways(s, id) == TRUE

DocExists(s, id) == id \in DOMAIN s

\* getJournalEntry: the document, or null when it does not exist or the read
\* throws.
getJournalEntry(s, id, readOk) ==
  IF readOk /\ id \in DOMAIN s THEN Some(WithId(s, id)) ELSE None

\* orderBy("createdAt", "desc").limit(1)
LatestIdOldest(s) == CHOOSE id \in DOMAIN s : \A o \in DOMAIN s : s[o].createdAt >= s[id].createdAt

LatestId(s) == CHOOSE id \in DOMAIN s : \A o \in DOMAIN s : s[o].createdAt <= s[id].createdAt

\* getLatestJournalEntry: the latest document, or null when the collection is
\* empty or the query throws.
getLatestJournalEntryNull(s, readOk) == None

\* getLatestJournalEntry: the legacy format as a one-item journal entry
ToJournalEntry(id, data) ==
  [id |-> id, timestamp |-> data.timestamp,
   entries |-> <<[timestamp |-> data.timestamp, transcription |-> data.transcription,
                  summary |-> data.summary, audioLength |-> data.audioLength,
                  metadata |-> data.metadata]>>]

getLatestJournalEntry(s, readOk) ==
  IF readOk /\ DOMAIN s # {}
    THEN LET id == LatestId(s)
         IN  IF ~HasEntries(s[id]) THEN Some(ToJournalEntry(id, s[id]))
                                   ELSE Some(WithId(s, id))
    ELSE None

\* getJournalEntries: orderBy("createdAt", "desc").limit(50), each document
\* with its id.
ListLimit == 50

RECURSIVE NewestFirst(_, _)
NewestFirst(s, ids) ==
  IF ids = {} THEN <<>>
  ELSE LET id == CHOOSE i \in ids : \A o \in ids : s[o].createdAt <= s[i].createdAt
       IN  <<WithId(s, id)>> \o NewestFirst(s, ids \ {id})

getJournalEntries(s) ==
  LET all == NewestFirst(s, DOMAIN s)
  IN  SubSeq(all, 1, IF Len(all) < ListLimit THEN Len(all) ELSE ListLimit)

\* ------------------------------------------------------------------------
\* Route handlers (index.ts)
\* ------------------------------------------------------------------------

\* Requests are numbered in the order they arrive.
Fresh(r) ==
  /\ reqs[r].route = "none"
  /\ IF r = 1 THEN TRUE ELSE reqs[r - 1].route # "none"

Serial(r) == \A k \in 1..(r - 1) : reqs[k].pc = "done"

\* The request as the handler finds it.
Request(r, route, id, audioData, metadata) ==
  [NoRequest EXCEPT !.route = route, !.id = id, !.audioData = audioData,
                    !.metadata = metadata, !.serial = Serial(r)]

\* res.status(status).json({error, message})
Fail(q, status, error, message) ==
  [q EXCEPT !.pc = "done", !.status = status, !.error = error, !.message = message]

\* The two validation checks every ingestion route starts with, then the
\* call of transcribeAudio.
Ingest(q) ==
      IF Falsy(q.audioData)
        THEN Fail(q, 400, "Missing audio data", "Audio data is required")
      ELSE IF ~isValidWebMData(q.audioData)
        THEN Fail(q, 400, "Invalid audio format",
                  "Audio data must be in WebM format (base64 encoded)")
      ELSE [q EXCEPT !.pc = "stt"]

\* POST /journal
handleJournalEntry(r) ==
  /\ Fresh(r)
  /\ \E audioData \in AudioInputs, metadata \in MetadataInputs :
       reqs' = [reqs EXCEPT ![r] = Ingest(Request(r, "journal", 0, audioData, metadata))]
  /\ UNCHANGED <<store, now, created, vvars>>

\* POST /journal/new
PostJournalNew(r) ==
  /\ Fresh(r)
  /\ \E audioData \in AudioInputs, metadata \in MetadataInputs :
       reqs' = [reqs EXCEPT ![r] = Ingest(Request(r, "new", 0, audioData, metadata))]
  /\ UNCHANGED <<store, now, created, vvars>>

\* POST /journal/:id/append
PostJournalAppend(r) ==
  /\ Fresh(r)
  /\ \E id \in Ids, audioData \in AudioInputs, metadata \in MetadataInputs :
       reqs' = [reqs EXCEPT ![r] = Ingest(Request(r, "append", id, audioData, metadata))]
  /\ UNCHANGED <<store, now, created, vvars>>

\* The item a handler hands to the store once transcribeAudio has returned:
\* createNewJournalEntry and appendToJournalEntry stamp it with the current
\* time before their first await.
PersistAbortOnError(q, tr) ==
  IF tr.error # None
    THEN Fail([q EXCEPT !.tr = Some(tr)], 500, "Internal Server Error", tr.error[1])
    ELSE LET item == [ timestamp |-> now, transcription |-> tr.text,
                       summary |-> tr.summary,
                       audioLength |-> Len(BufferFromBase64(q.audioData.chars)),
                       metadata |-> q.metadata ]
         IN  [q EXCEPT !.tr = Some(tr), !.item = Some(item),
                       !.pc = IF q.route = "append" THEN "exists" ELSE "add"]

Persist(q, tr) ==
  LET item == [ timestamp |-> now, transcription |-> tr.text,
                summary |-> tr.summary,
                audioLength |-> Len(BufferFromBase64(q.audioData.chars)),
                metadata |-> q.metadata ]
  IN  [q EXCEPT !.tr = Some(tr), !.item = Some(item),
                !.pc = IF q.route = "append" THEN "exists" ELSE "add"]

\* transcribeAudio: `if (transcription.text)`, the condition under which the
\* summary is asked for.
ShouldSummarizeAlways(text) == TRUE

ShouldSummarize(text) == text # ""

\* transcribeAudio: the speech-to-text call returns or throws.
SttReturn(r) ==
  /\ reqs[r].pc = "stt"
  /\ LET q == reqs[r]
         len == Len(BufferFromBase64(q.audioData.chars))
     IN  \/ \E text \in Texts :
              reqs' = [reqs EXCEPT ![r] =
                IF ShouldSummarize(text)
                  THEN [q EXCEPT !.pc = "sum", !.text = text]
                  ELSE Persist(q, [text |-> text, duration |-> Some(len),
                                   summary |-> None, error |-> None])]
         \/ reqs' = [reqs EXCEPT ![r] =
              Persist([q EXCEPT !.faults = @ \cup {"stt"}],
                      [text |-> "", duration |-> None, summary |-> None,
                       error |-> Some("transcription failed")])]
  /\ UNCHANGED <<store, now, created, vvars>>

\* transcribeAudio: what it returns when summarizeText threw; the inner catch
\* only logs, so the summary stays undefined.
SummarizeFailedAbort(text, len) ==
  [text |-> "", duration |-> None, summary |-> None,
   error |-> Some("summarization failed")]

SummarizeFailed(text, len) ==
  [text |-> text, duration |-> Some(len), summary |-> None, error |-> None]

\* summarizeText: the chat completion returns or throws.
SumReturn(r) ==
  /\ reqs[r].pc = "sum"
  /\ LET q == reqs[r]
         len == Len(BufferFromBase64(q.audioData.chars))
     IN  \/ \E content \in Contents :
              reqs' = [reqs EXCEPT ![r] =
                Persist(q, [text |-> q.text, duration |-> Some(len),
                            summary |-> IF content = None
                                          THEN Some("- No summary generated")
                                          ELSE content,
                            error |-> None])]
         \/ reqs' = [reqs EXCEPT ![r] =
              Persist([q EXCEPT !.faults = @ \cup {"sum"}],
                      SummarizeFailed(q.text, len))]
  /\ UNCHANGED <<store, now, created, vvars>>

\* `new Date()` moves on.
Tick ==
  /\ now < MaxTime
  /\ now' = now + 1
  /\ UNCHANGED <<store, reqs, created, vvars>>

\* res.json(...) of a successful create or append
Succeed(q, id) == [q EXCEPT !.pc = "done", !.status = 200, !.journalId = Some(id)]

\* createNewJournalEntry: journalCollection.add returns or throws.  The
\* create routes answer; latest-or-new goes on to fetch the new document.
AddReturn(r) ==
  /\ reqs[r].pc = "add"
  /\ LET q == reqs[r]
         id == NewDocId(store)
     IN  \/ /\ store' = [d \in DOMAIN store \cup {id} |->
                           IF d = id THEN NewDoc(store, q.item[1]) ELSE store[d]]
            /\ created' = Append(created, id)
            /\ reqs' = [reqs EXCEPT ![r] =
                 IF q.route = "latestOrNew"
                   THEN [q EXCEPT !.pc = "refetch", !.journalId = Some(id)]
                   ELSE Succeed(q, id)]
         \/ /\ reqs' = [reqs EXCEPT ![r] =
                 Fail([q EXCEPT !.faults = @ \cup {"write"}], 500,
                      "Internal Server Error", "store write failed")]
            /\ UNCHANGED <<store, created>>
  /\ UNCHANGED <<now, vvars>>

\* appendToJournalEntry: docRef.get() returns or throws; a missing document
\* is an error, an existing one is updated.
ExistsReturn(r) ==
  /\ reqs[r].pc = "exists"
  /\ LET q == reqs[r]
     IN  \/ reqs' = [reqs EXCEPT ![r] =
              IF ~DocExists(store, q.id)
                THEN Fail(q, 500, "Internal Server Error", "Journal entry not found")
                ELSE [q EXCEPT !.pc = "update"]]
         \/ reqs' = [reqs EXCEPT ![r] =
              Fail([q EXCEPT !.faults = @ \cup {"read"}], 500,
                   "Internal Server Error", "store read failed")]
  /\ UNCHANGED <<store, now, created, vvars>>

\* appendToJournalEntry: docRef.update({entries: arrayUnion(item)}) returns
\* or throws (it throws on a document that does not exist).
UpdateReturn(r) ==
  /\ reqs[r].pc = "update"
  /\ LET q == reqs[r]
     IN  \/ IF q.id \in DOMAIN store
              THEN /\ store' = [store EXCEPT ![q.id] = DocUpdate(@, q.item[1])]
                   /\ reqs' = [reqs EXCEPT ![r] = Succeed(q, q.id)]
              ELSE /\ reqs' = [reqs EXCEPT ![r] =
                        Fail(q, 500, "Internal Server Error", "No document to update")]
                   /\ UNCHANGED store
         \/ /\ reqs' = [reqs EXCEPT ![r] =
                 Fail([q EXCEPT !.faults = @ \cup {"write"}], 500,
                      "Internal Server Error", "store write failed")]
            /\ UNCHANGED store
  /\ UNCHANGED <<now, created, vvars>>

\* GET /journal/latest, GET /journal/latest-or-new, GET /journal/:id: the
\* handler runs up to its first store read.
GetJournalLatest(r) ==
  /\ Fresh(r)
  /\ reqs' = [reqs EXCEPT ![r] = [Request(r, "latest", 0, AbsentValue, None) EXCEPT !.pc = "latest"]]
  /\ UNCHANGED <<store, now, created, vvars>>

GetJournalLatestOrNew(r) ==
  /\ Fresh(r)
  /\ reqs' = [reqs EXCEPT ![r] = [Request(r, "latestOrNew", 0, AbsentValue, None) EXCEPT !.pc = "latest"]]
  /\ UNCHANGED <<store, now, created, vvars>>

GetJournalById(r) ==
  /\ Fresh(r)
  /\ \E id \in Ids :
       reqs' = [reqs EXCEPT ![r] = [Request(r, "get", id, AbsentValue, None) EXCEPT !.pc = "get"]]
  /\ UNCHANGED <<store, now, created, vvars>>

\* GET /journal: the handler runs up to getJournalEntries.
GetJournalList(r) ==
  /\ Fresh(r)
  /\ reqs' = [reqs EXCEPT ![r] = [Request(r, "list", 0, AbsentValue, None) EXCEPT !.pc = "list"]]
  /\ UNCHANGED <<store, now, created, vvars>>

\* The placeholder latest-or-new creates: no summary, {type: "journal"}.
Placeholder ==
  [ timestamp |-> now, transcription |-> "", summary |-> None,
    audioLength |-> 0, metadata |-> Some("journal") ]

\* getLatestJournalEntry returns.  /journal/latest answers 404 or the entry;
\* /journal/latest-or-new answers the entry or creates the placeholder.
GetLatestReturn(r) ==
  /\ reqs[r].pc = "latest"
  /\ \E readOk \in BOOLEAN :
       LET q == [reqs[r] EXCEPT !.faults = IF readOk THEN @ ELSE @ \cup {"read"}]
           entry == getLatestJournalEntry(store, readOk)
       IN  reqs' = [reqs EXCEPT ![r] =
             IF entry # None
               THEN [q EXCEPT !.pc = "done", !.status = 200, !.entry = entry]
             ELSE IF q.route = "latest"
               THEN Fail(q, 404, "Not Found", "No journal entries found")
             ELSE [q EXCEPT !.pc = "add", !.item = Some(Placeholder)]]
  /\ UNCHANGED <<store, now, created, vvars>>

\* getJournalEntry returns: to GET /journal/:id, or to latest-or-new fetching
\* the document it has just created.
GetReturn(r) ==
  /\ reqs[r].pc \in {"get", "refetch"}
  /\ \E readOk \in BOOLEAN :
       LET q == [reqs[r] EXCEPT !.faults = IF readOk THEN @ ELSE @ \cup {"read"}]
           id == IF q.pc = "get" THEN q.id ELSE q.journalId[1]
           entry == getJournalEntry(store, id, readOk)
       IN  reqs' = [reqs EXCEPT ![r] =
             IF entry # None
               THEN [q EXCEPT !.pc = "done", !.status = 200, !.entry = entry]
             ELSE IF q.pc = "get"
               THEN Fail(q, 404, "Not Found", "Journal entry not found")
             ELSE Fail(q, 500, "Internal Server Error",
                       "Failed to create and retrieve new journal entry")]
  /\ UNCHANGED <<store, now, created, vvars>>

\* getJournalEntries returns or throws: GET /journal answers the entries, or
\* 500 when the query failed.
ListReturn(r) ==
  /\ reqs[r].pc = "list"
  /\ LET q == reqs[r]
     IN  \/ reqs' = [reqs EXCEPT ![r] =
              [q EXCEPT !.pc = "done", !.status = 200,
                        !.list = Some(getJournalEntries(store))]]
         \/ reqs' = [reqs EXCEPT ![r] =
              Fail([q EXCEPT !.faults = @ \cup {"read"}], 500,
                   "Internal Server Error", "store read failed")]
  /\ UNCHANGED <<store, now, created, vvars>>

\* ------------------------------------------------------------------------
\* Specification of the server
\* ------------------------------------------------------------------------
\* A journal entry an earlier run of the server left in the collection.
EarlierItem ==
  [ timestamp |-> 0, transcription |-> "hello", summary |-> Some("- point"),
    audioLength |-> 4, metadata |-> None ]

\* The collection outlives the server process: it starts empty or holding an
\* entry of an earlier run.
\* The same entry as saveJournalEntry wrote it: flat, without entries.
LegacyDoc ==
  [ timestamp |-> 0, transcription |-> "hello", summary |-> Some("- point"),
    audioLength |-> 4, metadata |-> None, createdAt |-> 1 ]

InitialStores ==
  { << >>, <<[timestamp |-> 0, entries |-> <<EarlierItem>>, createdAt |-> 1]>>,
    <<LegacyDoc>> }

Init ==
  /\ store \in InitialStores
  /\ created = [i \in DOMAIN store |-> i]
  /\ now = 1
  /\ reqs = [r \in Reqs |-> NoRequest]
  /\ vData = AbsentValue
  /\ vResult = "pending"

Next ==
  \/ \E r \in Reqs : handleJournalEntry(r)
  \/ \E r \in Reqs : PostJournalNew(r)
  \/ \E r \in Reqs : PostJournalAppend(r)
  \/ \E r \in Reqs : GetJournalLatest(r)
  \/ \E r \in Reqs : GetJournalLatestOrNew(r)
  \/ \E r \in Reqs : GetJournalById(r)
  \/ \E r \in Reqs : GetJournalList(r)
  \/ \E r \in Reqs : SttReturn(r)
  \/ \E r \in Reqs : SumReturn(r)
  \/ \E r \in Reqs : AddReturn(r)
  \/ \E r \in Reqs : ExistsReturn(r)
  \/ \E r \in Reqs : UpdateReturn(r)
  \/ \E r \in Reqs : GetLatestReturn(r)
  \/ \E r \in Reqs : GetReturn(r)
  \/ \E r \in Reqs : ListReturn(r)
  \/ Tick

Spec == Init /\ [][Next]_vars

\* ------------------------------------------------------------------------
\* Properties
\* ------------------------------------------------------------------------
CreateRoutes == {"journal", "new"}
IngestionRoutes == {"journal", "new", "append"}

Range(f) == {f[i] : i \in DOMAIN f}

\* Documents an earlier run left behind (their timestamp predates this run).
Earlier == {d \in DOMAIN store : store[d].timestamp = 0}

\* Documents in the flat format of the earlier version of the service.
Legacy == {d \in DOMAIN store : "transcription" \in DOMAIN store[d]}

\* The items of a stored document as a reader is to see them: its entries,
\* or its flat fields as the only item.
EntriesOf(data) ==
  IF "entries" \in DOMAIN data THEN data.entries
  ELSE <<[f \in {"timestamp", "transcription", "summary", "audioLength", "metadata"}
            |-> data[f]]>>

\* Requests whose createNewJournalEntry call returned an id.
Creators == {r \in Reqs : reqs[r].route # "append" /\ reqs[r].journalId # None}

\* Successful appends to document id, and whether they came one after another.
Appends(id) ==
  {r \in Reqs : reqs[r].route = "append" /\ reqs[r].id = id /\ reqs[r].status = 200}

C2_AppendsGrowInOrder ==
  \A id \in DOMAIN store \ Legacy :
    LET A == Appends(id)
        Before(r) == Cardinality({k \in A : k < r})
    IN  (\A r \in A : reqs[r].serial) =>
          /\ Len(store[id].entries) = 1 + Cardinality(A)
          /\ \A r \in A : store[id].entries[2 + Before(r)] = reqs[r].item[1]

\* C3: every append that returned successfully has its item in the entries of
\* its document, however the appends to that document interleave.
C3_NoAppendLost ==
  \A r \in Reqs :
    (reqs[r].route = "append" /\ reqs[r].status = 200) =>
      /\ reqs[r].id \in DOMAIN store
      /\ reqs[r].item[1] \in Range(store[reqs[r].id].entries)

C3_Witness ==
  \E a, b \in Reqs :
    /\ a < b /\ ~reqs[b].serial
    /\ reqs[a].route = "append" /\ reqs[b].route = "append"
    /\ reqs[a].id = reqs[b].id
    /\ reqs[a].status = 200 /\ reqs[b].status = 200
    /\ reqs[a].item # reqs[b].item

\* C4: no step of an append request adds a document, and an append whose
\* existence check finds no document ends there: HTTP 500, the store as it
\* was, with the not-found message when the check itself did not fail.
C4_AppendToMissingIdCreatesNothing ==
  [][\A r \in Reqs :
       /\ (reqs'[r].route = "append" /\ reqs'[r] # reqs[r]) =>
            DOMAIN store' = DOMAIN store
       /\ (reqs[r].pc = "exists" /\ reqs'[r] # reqs[r]
             /\ reqs[r].id \notin DOMAIN store) =>
            /\ store' = store
            /\ reqs'[r].pc = "done" /\ reqs'[r].status = 500
            /\ "read" \notin reqs'[r].faults =>
                 reqs'[r].message = "Journal entry not found"]_vars

C4_Witness ==
  \E r \in Reqs :
    /\ reqs[r].route = "append" /\ reqs[r].pc = "done" /\ reqs[r].status = 500
    /\ reqs[r].message = "Journal entry not found"
    /\ reqs[r].id \notin DOMAIN store

\* Requests other than p and r that wrote to the store.
OtherWrites(p, r) == {k \in Reqs \ {p, r} : reqs[k].journalId # None}

\* C5 (store calls succeeding): GET /journal/latest-or-new that finds the
\* store empty creates one placeholder document (one item: transcription "",
\* audioLength 0, metadata {type: "journal"}) and answers with it; a later
\* call, with no other write in between, creates nothing and answers with
\* the same record.
C5_LatestOrNewIdempotent ==
  \A r \in Reqs :
    LET q == reqs[r] IN
    (q.route = "latestOrNew" /\ q.pc = "done" /\ q.faults = {}) =>
      /\ q.status = 200 /\ q.entry # None
      /\ (Earlier = {} /\ Creators \subseteq {r}) => q.journalId # None
      /\ q.journalId # None =>
           /\ q.entry[1].id = q.journalId[1]
           /\ \A k \in Creators \ {r} : reqs[k].journalId # q.journalId
           /\ q.entry[1].entries[1] =
                [ timestamp |-> q.entry[1].timestamp, transcription |-> "",
                  summary |-> None, audioLength |-> 0,
                  metadata |-> Some("journal") ]
           /\ Len(q.entry[1].entries) = 1 \/ Appends(q.journalId[1]) # {}
      /\ \A p \in 1..(r - 1) :
           ( reqs[p].route = "latestOrNew" /\ reqs[p].status = 200
             /\ q.serial /\ OtherWrites(p, r) = {} ) =>
             /\ q.journalId = None
             /\ q.entry = reqs[p].entry
             /\ q.entry[1].entries = EntriesOf(store[q.entry[1].id])

C5_Witness ==
  \E p, r \in Reqs :
    /\ p < r /\ reqs[r].serial /\ Earlier = {}
    /\ reqs[p].route = "latestOrNew" /\ reqs[r].route = "latestOrNew"
    /\ reqs[p].status = 200 /\ reqs[p].journalId # None
    /\ reqs[r].status = 200 /\ reqs[r].faults = {}
    /\ reqs[r].entry = reqs[p].entry
    /\ DOMAIN store = {reqs[p].journalId[1]}

\* C6: a document fetched by the id a create returned, before anyone has
\* appended to it, has exactly one item, and the item carries the
\* transcription, summary, audioLength and metadata handed to the create.
C6_CreateThenFetch ==
  \A c, g \in Reqs :
    ( reqs[c].route \in CreateRoutes /\ reqs[c].status = 200
      /\ reqs[g].route = "get" /\ reqs[g].status = 200
      /\ Some(reqs[g].id) = reqs[c].journalId
      /\ Appends(reqs[g].id) = {} ) =>
      LET e == reqs[g].entry[1].entries
          item == reqs[c].item[1]
      IN  /\ reqs[g].entry[1].id = reqs[g].id
          /\ Len(e) = 1
          /\ e[1].transcription = item.transcription
          /\ e[1].summary = item.summary
          /\ e[1].audioLength = item.audioLength
          /\ e[1].metadata = item.metadata
          /\ item.transcription = reqs[c].tr[1].text
          /\ item.audioLength = Len(BufferFromBase64(reqs[c].audioData.chars))

C6_Witness ==
  \E c, g \in Reqs :
    /\ reqs[c].route \in CreateRoutes /\ reqs[c].status = 200
    /\ reqs[g].route = "get" /\ reqs[g].status = 200
    /\ Some(reqs[g].id) = reqs[c].journalId
    /\ reqs[c].item[1].summary # None /\ reqs[c].item[1].metadata # None

\* C7: getLatestJournalEntry, when its query does not throw, returns null on
\* an empty collection and otherwise the document with the greatest creation
\* time, which is the document created last.
C7_LatestIsMostRecentlyCreated ==
  [][\A r \in Reqs :
       (reqs[r].pc = "latest" /\ reqs'[r] # reqs[r]
          /\ "read" \notin reqs'[r].faults) =>
         IF DOMAIN store = {}
           THEN reqs'[r].entry = None
           ELSE /\ reqs'[r].entry # None
                /\ LET e == reqs'[r].entry[1]
                   IN  /\ e.id = created[Len(created)]
                       /\ e.timestamp = store[e.id].timestamp
                       /\ e.entries = EntriesOf(store[e.id])
                       /\ \A d \in DOMAIN store \ {e.id} :
                            store[d].createdAt < store[e.id].createdAt]_vars

C7_Witness ==
  \E r \in Reqs :
    /\ reqs[r].route = "latest" /\ reqs[r].status = 200
    /\ Len(created) >= 2
    /\ reqs[r].entry[1].id = created[Len(created)]

\* C8: on each ingestion route a request without audioData is answered 400
\* "Missing audio data" at once: it never reaches the transcription client
\* or the store.
C8_MissingAudio ==
  \A r \in Reqs :
    (reqs[r].route \in IngestionRoutes /\ reqs[r].audioData = AbsentValue) =>
      /\ reqs[r].pc = "done" /\ reqs[r].status = 400
      /\ reqs[r].error = "Missing audio data"
      /\ reqs[r].tr = None /\ reqs[r].item = None /\ reqs[r].journalId = None

C8_Witness ==
  \E a, b \in Reqs :
    /\ reqs[a].route \in CreateRoutes /\ reqs[b].route = "append"
    /\ reqs[a].audioData = AbsentValue /\ reqs[b].audioData = AbsentValue
    /\ reqs[a].status = 400 /\ reqs[b].status = 400

\* The EBML signature 1A 45 DF A3.
Signature == <<26, 69, 223, 163>>

\* A string whose decoded bytes begin with the signature.
StartsWithSignature(data) ==
  /\ data.type = "string"
  /\ LET decoded == BufferFromBase64(data.chars)
     IN  Len(decoded) >= 4 /\ SubSeq(decoded, 1, 4) = Signature

\* What the format validator is to reject.
Rejected(data) == ~StartsWithSignature(data)

C10_ValidatorExact ==
  vResult # "pending" =>
    /\ vResult \in {"true", "false"}
    /\ vResult = "true" <=> StartsWithSignature(vData)
    /\ vData = StringValue(<<"G", "k", "X", "f", "o", "w">>) => vResult = "true"
    /\ vData = StringValue(<<"G", "k", "X", "f", "o", "G">>) => vResult = "false"
    /\ vData = StringValue(<<>>) => vResult = "false"

C10_Witness ==
  /\ vResult = "true"
  /\ vData.type = "string"
  /\ BufferFromBase64(vData.chars) = Signature

\* The records a request was answered with.
Returned(r) ==
  IF reqs[r].list # None THEN Range(reqs[r].list[1])
  ELSE IF reqs[r].entry # None THEN {reqs[r].entry[1]}
  ELSE {}

\* C11: every record a read (GET /journal, /journal/latest,
\* /journal/latest-or-new, /journal/:id) answers with has entries, and a
\* document stored in the flat format is seen as one item carrying its
\* timestamp, transcription, summary, audioLength and metadata.
C11_ReadsNormalizeLegacy ==
  \A r \in Reqs : \A e \in Returned(r) :
    /\ "entries" \in DOMAIN e
    /\ (e.id \in Legacy /\ Appends(e.id) = {}) =>
         e.entries = EntriesOf(store[e.id])

\* C12: a store read that fails during GET /journal or GET /journal/:id is
\* answered with HTTP 500 "Internal Server Error", never with 404 or 200.
C12_ReadFailureIs500 ==
  \A r \in Reqs :
    (reqs[r].route \in {"list", "get"} /\ "read" \in reqs[r].faults) =>
      /\ reqs[r].pc = "done"
      /\ reqs[r].status = 500
      /\ reqs[r].error = "Internal Server Error"

StoredEntries(data) == IF "entries" \in DOMAIN data THEN data.entries ELSE <<>>

IsPrefix(a, b) == Len(a) <= Len(b) /\ SubSeq(b, 1, Len(a)) = a

\* C14: every document written in the entries format has at least one item;
\* a step never deletes a document, and it leaves the entries of each
\* document as they were or extends them at the end by one item, so that no
\* item is removed, replaced or moved.
C14_EntriesAppendOnly ==
  /\ [](\A d \in DOMAIN store \ Legacy : Len(store[d].entries) >= 1)
  /\ [][\A d \in DOMAIN store :
          /\ d \in DOMAIN store'
          /\ IsPrefix(StoredEntries(store[d]), StoredEntries(store'[d]))
          /\ Len(StoredEntries(store'[d])) <= Len(StoredEntries(store[d])) + 1]_vars

C14_Witness ==
  \E c, a \in Reqs :
    /\ reqs[c].route \in CreateRoutes /\ reqs[c].status = 200
    /\ reqs[a].route = "append" /\ reqs[a].status = 200
    /\ reqs[a].id = reqs[c].journalId[1]
    /\ store[reqs[a].id].entries = <<reqs[c].item[1], reqs[a].item[1]>>
    /\ reqs[c].item # reqs[a].item

\* Where a request is on its way: 0 received, 2 transcribing, 3 persisting,
\* 4 answered.  Validation (1) is passed within the step that starts the
\* transcription.
Stage(q) ==
  CASE q.pc = "idle" -> 0
    [] q.pc \in {"stt", "sum"} -> 2
    [] q.pc \in {"add", "exists", "update"} -> 3
    [] OTHER -> 4

\* C15: an ingestion request moves forward only: received, validated,
\* transcribing, persisting, answered.  It is answered once, with 200, 400 or
\* 500, and never moves after that.  Transcription starts only on audio that
\* passed validation, the store is written only by a validated request whose
\* transcription has returned, 200 is sent only by the step in which the
\* store write succeeded, and a failed store write is answered 500.
C15_IngestionLifecycle ==
  [][\A r \in Reqs :
       (reqs'[r] # reqs[r] /\ reqs'[r].route \in IngestionRoutes) =>
         LET q == reqs[r]
             n == reqs'[r]
         IN  /\ q.pc # "done"
             /\ n.pc # q.pc /\ Stage(n) >= Stage(q)
             /\ n.pc = "stt" =>
                  q.pc = "idle" /\ ~Falsy(n.audioData) /\ StartsWithSignature(n.audioData)
             /\ n.pc \in {"add", "exists"} => q.pc \in {"stt", "sum"} /\ n.tr # None
             /\ n.pc = "update" => q.pc = "exists"
             /\ n.pc = "done" <=> n.status # 0
             /\ n.pc = "done" => n.status \in {200, 400, 500}
             /\ n.status = 400 => q.pc = "idle"
             /\ store' # store =>
                  /\ q.pc \in {"add", "update"} /\ q.tr # None /\ q.item # None
                  /\ StartsWithSignature(q.audioData)
             /\ n.status = 200 =>
                  /\ q.pc \in {"add", "update"} /\ "write" \notin n.faults
                  /\ n.journalId # None /\ n.journalId[1] \in DOMAIN store'
                  /\ q.item[1] \in Range(store'[n.journalId[1]].entries)
             /\ "write" \in n.faults =>
                  /\ q.pc \in {"add", "update"}
                  /\ n.status = 500 /\ store' = store]_vars

C15_Witness ==
  \E a, b \in Reqs :
    /\ reqs[a].route \in IngestionRoutes /\ reqs[a].status = 200
    /\ reqs[b].route \in IngestionRoutes /\ reqs[b].status = 500
    /\ "write" \in reqs[b].faults /\ reqs[b].tr # None
    /\ reqs[a].journalId[1] \in DOMAIN store

\* C16: the summarization call is issued only by the step in which the
\* speech-to-text call returned without error, and only for non-empty text;
\* when that call failed or returned empty text, no summarization call is
\* made and transcribeAudio returns without a summary.  A summary comes from
\* a summarization call only.
C16_SummarizeOnlyAfterText ==
  [][\A r \in Reqs :
       reqs'[r] # reqs[r] =>
         LET q == reqs[r]
             n == reqs'[r]
         IN  /\ n.pc = "sum" =>
                  /\ q.pc = "stt" /\ n.tr = None
                  /\ n.text # "" /\ "stt" \notin n.faults
             /\ (q.pc = "stt" /\ n.pc # "sum") =>
                  /\ n.tr # None /\ n.tr[1].text = "" /\ n.tr[1].summary = None
                  /\ "sum" \notin n.faults
             /\ (q.pc = "stt" /\ "stt" \in n.faults) => n.pc # "sum"
             /\ (n.tr # None /\ n.tr[1].summary # None) =>
                  /\ q.pc \in {"sum", "add", "exists", "update"}
                  /\ n.text # "" /\ n.tr[1].text = n.text]_vars

C16_Witness ==
  \E a, b \in Reqs :
    /\ "stt" \in reqs[a].faults /\ reqs[a].tr # None
    /\ reqs[a].tr[1].summary = None /\ reqs[a].pc = "done"
    /\ reqs[b].tr # None /\ reqs[b].tr[1].text = "hello"
    /\ reqs[b].tr[1].summary = Some("- point")

\* latest-or-new requests that created a placeholder document.
Placeholders == {r \in Reqs : reqs[r].route = "latestOrNew" /\ reqs[r].journalId # None}

\* C17: latest-or-new creates its placeholder only in an empty store: the
\* placeholder is the first document of the collection, so that requests
\* starting from an empty store create at most one placeholder, however they
\* interleave and also when the latest read fails.
C17_PlaceholderOnlyWhenEmpty ==
  /\ \A r \in Placeholders : reqs[r].journalId[1] = created[1]
  /\ Cardinality(Placeholders) <= 1

\* --- the validator applied to every bounded input ---
\* The input is a value that is no string, or a string over the alphabet of up
\* to MaxLen characters, built one character at a time.
ValidatorInit ==
  /\ vData \in {StringValue(<<>>), NumberValue}
  /\ vResult = "pending"
  /\ store = << >>
  /\ created = << >>
  /\ now = 1
  /\ reqs = [r \in Reqs |-> NoRequest]

Extend ==
  /\ vResult = "pending"
  /\ vData.type = "string"
  /\ Len(vData.chars) < MaxLen
  /\ \E c \in Alphabet : vData' = StringValue(Append(vData.chars, c))
  /\ UNCHANGED <<vResult, store, now, reqs, created>>

Validate ==
  /\ vResult = "pending"
  /\ vResult' = IF isValidWebMData(vData) THEN "true" ELSE "false"
  /\ UNCHANGED <<vData, store, now, reqs, created>>

ValidatorNext == Extend \/ Validate

SpecValidator == ValidatorInit /\ [][ValidatorNext]_vars

====
